---- MODULE Spec2Model ----
(***************************************************************************)
(* market-lab: the indicator engine (analytics/indicators.py), the EMA     *)
(* crossover backtest (analytics/backtest.py) and the CLI commands that    *)
(* reimplement them (app.py: ema, rsi, cmd_indicators, cmd_backtest).      *)
(*                                                                         *)
(* A DataFrame is a function from column names to aligned sequences        *)
(* (1-based: bar t of the source is index t+1 here).  A float is a record  *)
(* [k, n, d]: an exact rational n/d, the not-a-number sentinel, or an      *)
(* infinity; arithmetic follows IEEE-754 for the sentinel and the          *)
(* infinities and is exact on rationals (rounding is not modelled, except  *)
(* for the square root, which is truncated to 1/SqrtScale).  DataFrames    *)
(* live in a heap of objects so that df.copy() and column assignment are   *)
(* what they are in the source: a fresh object, and an update in place.    *)
(*                                                                         *)
(* Input domain: close prices are positive integers (no missing values);   *)
(* window, span and period arguments are >= 1.                             *)
(***************************************************************************)
EXTENDS Integers, Sequences, FiniteSets, TLC

\* ------------------------------------------------------------ bounds
MaxLen == 3
MaxPrice == 2
MaxWin == 2
MaxSpan == 2
SqrtScale == 100
Precision == 1000

\* Defaults of the source's signatures.
SMA_DEFAULT == 20
EMA_DEFAULT == 20
RSI_DEFAULT == 14
VOL_DEFAULT == 20
BB_WINDOW_DEFAULT == 20
BB_K_DEFAULT == 2
MACD_FAST_DEFAULT == 12
MACD_SLOW_DEFAULT == 26
MACD_SIGNAL_DEFAULT == 9

VARIABLES heap, orig, call, fs, stdout

vars == <<heap, orig, call, fs, stdout>>

\* ------------------------------------------------------------ floats
Abs(i) == IF i < 0 THEN -i ELSE i

RECURSIVE GCD(_, _)
GCD(a, b) == IF b = 0 THEN a ELSE GCD(b, a % b)

NaN == [k |-> "nan", n |-> 0, d |-> 0]
Inf(s) == [k |-> "inf", n |-> s, d |-> 0]

\* n/d in lowest terms, d > 0.
Rat(n, d) ==
    LET g == GCD(Abs(n), Abs(d))
        s == IF d < 0 THEN -1 ELSE 1
    IN [k |-> "num", n |-> s * (n \div g), d |-> Abs(d) \div g]

Int2F(i) == [k |-> "num", n |-> i, d |-> 1]
Zero == Int2F(0)
One == Int2F(1)

IsNaN(v) == v.k = "nan"
IsNum(v) == v.k = "num"
IsInf(v) == v.k = "inf"
Sign(v) == IF v.n > 0 THEN 1 ELSE IF v.n < 0 THEN -1 ELSE 0

FNeg(v) == IF IsNaN(v) THEN NaN ELSE [v EXCEPT !.n = -v.n]

\* Finite precision.  A result is exact whenever its numerator and denominator
\* fit the machine word; when they would not, the operands are first rounded
\* to a denominator of at most Precision (a float rounds likewise, at 2^-53).
WordMax == 2^30
Fits(x, y) == x = 0 \/ y = 0 \/ Abs(y) <= WordMax \div Abs(x)
Shrink(v) ==
    IF v.d <= Precision THEN v
    ELSE LET c == (v.d \div Precision) + 1 IN Rat(v.n \div c, v.d \div c)

AddExact(a, b) ==
    LET g == GCD(a.d, b.d)
        l == (a.d \div g) * b.d
    IN Rat(a.n * (l \div a.d) + b.n * (l \div b.d), l)
AddFits(a, b) ==
    LET x == a.d \div GCD(a.d, b.d)
    IN Fits(x, b.d) /\ Fits(a.n, b.d \div GCD(a.d, b.d)) /\ Fits(b.n, x)

FAdd(a, b) ==
    IF IsNaN(a) \/ IsNaN(b) THEN NaN
    ELSE IF IsInf(a) /\ IsInf(b) THEN (IF a.n = b.n THEN a ELSE NaN)
    ELSE IF IsInf(a) THEN a
    ELSE IF IsInf(b) THEN b
    ELSE IF AddFits(a, b) THEN AddExact(a, b)
    ELSE AddExact(Shrink(a), Shrink(b))

FSub(a, b) == FAdd(a, FNeg(b))

MulExact(a, b) ==
    LET g1 == GCD(Abs(a.n), b.d)
        g2 == GCD(Abs(b.n), a.d)
    IN Rat((a.n \div g1) * (b.n \div g2), (a.d \div g2) * (b.d \div g1))
MulFits(a, b) ==
    LET g1 == GCD(Abs(a.n), b.d)
        g2 == GCD(Abs(b.n), a.d)
    IN Fits(a.n \div g1, b.n \div g2) /\ Fits(a.d \div g2, b.d \div g1)

FMul(a, b) ==
    IF IsNaN(a) \/ IsNaN(b) THEN NaN
    ELSE IF IsInf(a) \/ IsInf(b)
         THEN (IF Sign(a) * Sign(b) = 0 THEN NaN ELSE Inf(Sign(a) * Sign(b)))
    ELSE IF MulFits(a, b) THEN MulExact(a, b)
    ELSE MulExact(Shrink(a), Shrink(b))

\* IEEE division: x/0 is an infinity, 0/0 and inf/inf are not-a-number.
FDiv(a, b) ==
    IF IsNaN(a) \/ IsNaN(b) THEN NaN
    ELSE IF IsInf(b) THEN (IF IsInf(a) THEN NaN ELSE Zero)
    ELSE IF b.n = 0 THEN (IF a.n = 0 THEN NaN ELSE Inf(Sign(a)))
    ELSE IF IsInf(a) THEN Inf(Sign(a) * Sign(b))
    ELSE FMul(a, Rat(b.d, b.n))

\* Comparisons: every comparison with not-a-number is false.
FLt(a, b) ==
    /\ ~IsNaN(a) /\ ~IsNaN(b)
    /\ IF IsInf(a) \/ IsInf(b)
       THEN (IF IsInf(a) /\ IsInf(b) THEN a.n < b.n
             ELSE IF IsInf(a) THEN a.n < 0 ELSE b.n > 0)
       ELSE IF Fits(a.n, b.d) /\ Fits(b.n, a.d) THEN a.n * b.d < b.n * a.d
       ELSE Shrink(a).n * Shrink(b).d < Shrink(b).n * Shrink(a).d
FGt(a, b) == FLt(b, a)
FEq(a, b) == ~IsNaN(a) /\ ~IsNaN(b) /\ a = b
FLe(a, b) == FLt(a, b) \/ FEq(a, b)

FAbs(v) == IF IsNaN(v) THEN NaN ELSE [v EXCEPT !.n = Abs(v.n)]

RECURSIVE ISqrtIn(_, _, _)
ISqrtIn(q, lo, hi) ==
    IF lo = hi THEN lo
    ELSE LET mid == (lo + hi + 1) \div 2
         IN IF mid * mid <= q THEN ISqrtIn(q, mid, hi) ELSE ISqrtIn(q, lo, mid - 1)

\* Square root, truncated to a multiple of 1/SqrtScale.
FSqrt(v) ==
    IF IsNaN(v) THEN NaN
    ELSE IF IsInf(v) THEN (IF v.n > 0 THEN v ELSE NaN)
    ELSE IF v.n < 0 THEN NaN
    ELSE LET u == IF Fits(v.n, SqrtScale * SqrtScale) THEN v ELSE Shrink(v)
             q == (u.n * SqrtScale * SqrtScale) \div u.d
         IN Rat(ISqrtIn(q, 0, SqrtScale * (u.n \div u.d + 1)), SqrtScale)

Bool2F(b) == IF b THEN One ELSE Zero

\* The element of a one-element set.  The({ e(x) : x \in {v} }) is e(v) with v
\* computed once.
The(S) == CHOOSE y \in S : TRUE

\* ------------------------------------------------------------ pandas Series
SAdd(s, u) == [i \in 1..Len(s) |-> FAdd(s[i], u[i])]
SSub(s, u) == [i \in 1..Len(s) |-> FSub(s[i], u[i])]
SMul(s, u) == [i \in 1..Len(s) |-> FMul(s[i], u[i])]
SDiv(s, u) == [i \in 1..Len(s) |-> FDiv(s[i], u[i])]
SAddK(c, s) == [i \in 1..Len(s) |-> FAdd(c, s[i])]
SSubK(c, s) == [i \in 1..Len(s) |-> FSub(c, s[i])]
SMulK(c, s) == [i \in 1..Len(s) |-> FMul(c, s[i])]
SKDiv(c, s) == [i \in 1..Len(s) |-> FDiv(c, s[i])]
SNeg(s) == [i \in 1..Len(s) |-> FNeg(s[i])]
SAbs(s) == [i \in 1..Len(s) |-> FAbs(s[i])]
\* Faulty variant of SGt: >= in place of >.
SGe(s, u) == [i \in 1..Len(s) |-> FLe(u[i], s[i])]
SGt(s, u) == [i \in 1..Len(s) |-> FGt(s[i], u[i])]
SGtK(s, c) == [i \in 1..Len(s) |-> FGt(s[i], c)]
SLtK(s, c) == [i \in 1..Len(s) |-> FLt(s[i], c)]
SEqK(s, c) == [i \in 1..Len(s) |-> FEq(s[i], c)]
SNeK(s, c) == [i \in 1..Len(s) |-> ~FEq(s[i], c)]
astype_int(b) == [i \in 1..Len(b) |-> Bool2F(b[i])]
bool_sum(b) == Cardinality({i \in 1..Len(b) : b[i]})
\* s[mask]: the entries where the mask is true, in order.
RECURSIVE MaskUpTo(_, _, _)
MaskUpTo(s, m, t) ==
    IF t = 0 THEN <<>>
    ELSE IF m[t] THEN Append(MaskUpTo(s, m, t - 1), s[t]) ELSE MaskUpTo(s, m, t - 1)
mask(s, m) == MaskUpTo(s, m, Len(s))
bool_any(b) == \E i \in 1..Len(b) : b[i]

\* Faulty variant of shift: the series is not delayed (same-bar signal).
shift_none(s) == s
shift(s) == [i \in 1..Len(s) |-> IF i = 1 THEN NaN ELSE s[i - 1]]
diff(s) == [i \in 1..Len(s) |-> IF i = 1 THEN NaN ELSE FSub(s[i], s[i - 1])]
pct_change(s) ==
    [i \in 1..Len(s) |-> IF i = 1 THEN NaN ELSE FSub(FDiv(s[i], s[i - 1]), One)]
fillna(s, c) == [i \in 1..Len(s) |-> IF IsNaN(s[i]) THEN c ELSE s[i]]
replace(s, old, new) == [i \in 1..Len(s) |-> IF FEq(s[i], old) THEN new ELSE s[i]]
clip_lower(s, c) == [i \in 1..Len(s) |-> IF FLt(s[i], c) THEN c ELSE s[i]]
clip_upper(s, c) == [i \in 1..Len(s) |-> IF FGt(s[i], c) THEN c ELSE s[i]]
np_where(cond, s, c) == [i \in 1..Len(s) |-> IF cond[i] THEN s[i] ELSE c]

FMax(a, b) == IF FLt(a, b) THEN b ELSE a
FMin(a, b) == IF FLt(b, a) THEN b ELSE a

\* cumprod / cummax / min skip the sentinel: the entry is undefined, the run
\* goes on with the defined entries.
RECURSIVE ProdUpTo(_, _)
ProdUpTo(s, t) ==
    IF t = 0 THEN NaN
    ELSE The({ IF IsNaN(s[t]) THEN p ELSE IF IsNaN(p) THEN s[t] ELSE FMul(p, s[t]) :
               p \in {ProdUpTo(s, t - 1)} })
RECURSIVE MaxUpTo(_, _)
MaxUpTo(s, t) ==
    IF t = 0 THEN NaN
    ELSE The({ IF IsNaN(s[t]) THEN p ELSE IF IsNaN(p) THEN s[t] ELSE FMax(p, s[t]) :
               p \in {MaxUpTo(s, t - 1)} })
RECURSIVE MinUpTo(_, _)
MinUpTo(s, t) ==
    IF t = 0 THEN NaN
    ELSE The({ IF IsNaN(s[t]) THEN p ELSE IF IsNaN(p) THEN s[t] ELSE FMin(p, s[t]) :
               p \in {MinUpTo(s, t - 1)} })
cumprod(s) == [i \in 1..Len(s) |-> IF IsNaN(s[i]) THEN NaN ELSE ProdUpTo(s, i)]
\* Faulty variant of cummax: the maximum of the whole series on every bar, so
\* that a bar is measured against a peak that only comes later.
overall_max(s) == [i \in 1..Len(s) |-> IF IsNaN(s[i]) THEN NaN ELSE MaxUpTo(s, Len(s))]
cummax(s) == [i \in 1..Len(s) |-> IF IsNaN(s[i]) THEN NaN ELSE MaxUpTo(s, i)]
series_min(s) == MinUpTo(s, Len(s))
\* Series.mean() of a boolean mask: the fraction of true entries.
bool_mean(b) == FDiv(Int2F(Cardinality({i \in 1..Len(b) : b[i]})), Int2F(Len(b)))

RECURSIVE SumRange(_, _, _)
SumRange(s, lo, hi) == IF lo > hi THEN Zero ELSE FAdd(SumRange(s, lo, hi - 1), s[hi])

\* rolling(window): min_periods = window, so a window is defined only when it
\* holds `window` defined observations.
WindowFull(s, i, w) == i >= w /\ \A j \in (i - w + 1)..i : ~IsNaN(s[j])
RollMean(s, i, w) == FDiv(SumRange(s, i - w + 1, i), Int2F(w))
\* Faulty variant of rolling_mean: min_periods = 1, the mean of what the window holds.
rolling_mean_partial(s, w) ==
    [i \in 1..Len(s) |->
        IF i >= w THEN (IF WindowFull(s, i, w) THEN RollMean(s, i, w) ELSE NaN)
        ELSE IF \A j \in 1..i : ~IsNaN(s[j]) THEN RollMean(s, i, i) ELSE NaN]
rolling_mean(s, w) ==
    [i \in 1..Len(s) |-> IF WindowFull(s, i, w) THEN RollMean(s, i, w) ELSE NaN]
RollVar(s, i, w) ==
    The({ FDiv(SumRange([j \in 1..Len(s) |-> FMul(FSub(s[j], m), FSub(s[j], m))],
                        i - w + 1, i),
               Int2F(w - 1)) :
          m \in {RollMean(s, i, w)} })
\* std(ddof=1): undefined when window - 1 = 0.
rolling_std(s, w) ==
    [i \in 1..Len(s) |->
        IF WindowFull(s, i, w) /\ w > 1 THEN FSqrt(RollVar(s, i, w)) ELSE NaN]

\* ewm(span, adjust=False).mean(): y[0] = x[0], y[t] = a*x[t] + (1-a)*y[t-1],
\* a = 2/(span+1).
RECURSIVE EwmUpTo(_, _, _)
EwmUpTo(s, a, t) ==
    IF t = 0 THEN <<>>
    ELSE The({ Append(prev, IF t = 1 THEN s[1]
                            ELSE FAdd(FMul(a, s[t]), FMul(FSub(One, a), prev[t - 1]))) :
               prev \in {EwmUpTo(s, a, t - 1)} })
ewm_mean(s, span) == EwmUpTo(s, Rat(2, span + 1), Len(s))

\* ------------------------------------------------------------ DataFrames
\* Python's None for an optional window (windows are >= 1).
None == 0

ColName(prefix, n) == prefix \o ToString(n)

\* Faulty variant of DfCopy: no copy, the same object.
DfAlias(h, r) == [h |-> h, ref |-> r]
\* df.copy(): a fresh object holding the same columns.
DfCopy(h, r) == [h |-> Append(h, h[r]), ref |-> Len(h) + 1]
\* df[name] = series: the object is updated in place.
SetCol(h, r, name, s) == [h EXCEPT ![r] = (name :> s) @@ @]
HasCol(h, r, name) == name \in DOMAIN h[r]

\* The outcome of a call: the heap after it, the object it returns (or was
\* working on when it raised), the exception, the returned dict.
NoRet ==
    [fast |-> 0, slow |-> 0, total_return |-> NaN, max_drawdown |-> NaN, trades |-> 0]
Ok(h, r) == [h |-> h, ref |-> r, exc |-> "None", ret |-> NoRet]
Raise(h, r, e) == [h |-> h, ref |-> r, exc |-> e, ret |-> NoRet]

\* ------------------------------------------------------------ analytics/indicators.py
add_returns(h, df) ==
    LET c == DfCopy(h, df)
        out == c.ref
    IN IF ~HasCol(c.h, out, "close") THEN Raise(c.h, out, "KeyError")
       ELSE LET ret == pct_change(c.h[out]["close"])
                h1 == SetCol(c.h, out, "return", ret)
                h2 == SetCol(h1, out, "cum_return",
                             SAddK(Int2F(-1), cumprod(SAddK(One, fillna(ret, Zero)))))
            IN Ok(h2, out)

add_sma(h, df, window) ==
    LET c == DfCopy(h, df)
        out == c.ref
    IN IF ~HasCol(c.h, out, "close") THEN Raise(c.h, out, "KeyError")
       ELSE Ok(SetCol(c.h, out, ColName("sma_", window),
                      rolling_mean(c.h[out]["close"], window)), out)

add_ema(h, df, span) ==
    LET c == DfCopy(h, df)
        out == c.ref
    IN IF ~HasCol(c.h, out, "close") THEN Raise(c.h, out, "KeyError")
       ELSE Ok(SetCol(c.h, out, ColName("ema_", span),
                      ewm_mean(c.h[out]["close"], span)), out)

add_volatility(h, df, window) ==
    LET c == DfCopy(h, df)
        out == c.ref
    IN IF ~HasCol(c.h, out, "close") THEN Raise(c.h, out, "KeyError")
       ELSE Ok(SetCol(c.h, out, ColName("vol_", window),
                      rolling_std(pct_change(c.h[out]["close"]), window)), out)

\* Faulty variant of RsiFromAverages: a zero average loss is divided by as it is.
RsiNoReplace(avg_gain, avg_loss) ==
    SSubK(Int2F(100), SKDiv(Int2F(100), SAddK(One, SDiv(avg_gain, avg_loss))))
\* rs and the RSI formula, shared by the two implementations' last lines.
RsiFromAverages(avg_gain, avg_loss) ==
    LET rs == SDiv(avg_gain, replace(avg_loss, Zero, NaN))
    IN SSubK(Int2F(100), SKDiv(Int2F(100), SAddK(One, rs)))

add_rsi(h, df, period) ==
    LET c == DfCopy(h, df)
        out == c.ref
    IN IF ~HasCol(c.h, out, "close") THEN Raise(c.h, out, "KeyError")
       ELSE LET delta == diff(c.h[out]["close"])
                gain == clip_lower(delta, Zero)
                loss == SNeg(clip_upper(delta, Zero))
                avg_gain == rolling_mean(gain, period)
                avg_loss == rolling_mean(loss, period)
            IN Ok(SetCol(c.h, out, ColName("rsi_", period),
                         RsiFromAverages(avg_gain, avg_loss)), out)

add_macd(h, df, fast, slow, signal) ==
    LET c == DfCopy(h, df)
        out == c.ref
    IN IF ~HasCol(c.h, out, "close") THEN Raise(c.h, out, "KeyError")
       ELSE LET ema_fast == ewm_mean(c.h[out]["close"], fast)
                ema_slow == ewm_mean(c.h[out]["close"], slow)
                macd == SSub(ema_fast, ema_slow)
                macd_signal == ewm_mean(macd, signal)
                h1 == SetCol(c.h, out, ColName(ColName("macd_", fast) \o "_", slow), macd)
                h2 == SetCol(h1, out, ColName("macd_signal_", signal), macd_signal)
                h3 == SetCol(h2, out, "macd_hist", SSub(macd, macd_signal))
            IN Ok(h3, out)

add_bollinger_bands(h, df, window, k) ==
    LET c == DfCopy(h, df)
        out == c.ref
    IN IF ~HasCol(c.h, out, "close") THEN Raise(c.h, out, "KeyError")
       ELSE LET ma == rolling_mean(c.h[out]["close"], window)
                sd == rolling_std(c.h[out]["close"], window)
                h1 == SetCol(c.h, out, ColName("bb_mid_", window), ma)
                h2 == SetCol(h1, out, ColName("bb_up_", window),
                             SAdd(ma, SMulK(Int2F(k), sd)))
                h3 == SetCol(h2, out, ColName("bb_low_", window),
                             SSub(ma, SMulK(Int2F(k), sd)))
            IN Ok(h3, out)

\* Each optional step runs on the table the previous step returned; an
\* exception ends the chain.
apply_indicators(h, df, sma, ema, rsi, macd, bb, vol_window) ==
    LET Sma(r) == The({ IF x.exc = "None" /\ sma # None
                        THEN add_sma(x.h, x.ref, sma) ELSE x : x \in {r} })
        Ema(r) == The({ IF x.exc = "None" /\ ema # None
                        THEN add_ema(x.h, x.ref, ema) ELSE x : x \in {r} })
        Rsi(r) == The({ IF x.exc = "None" /\ rsi # None
                        THEN add_rsi(x.h, x.ref, rsi) ELSE x : x \in {r} })
        Macd(r) == The({ IF x.exc = "None" /\ macd
                         THEN add_macd(x.h, x.ref, MACD_FAST_DEFAULT, MACD_SLOW_DEFAULT,
                                       MACD_SIGNAL_DEFAULT)
                         ELSE x : x \in {r} })
        Bb(r) == The({ IF x.exc = "None" /\ bb
                       THEN add_bollinger_bands(x.h, x.ref, BB_WINDOW_DEFAULT,
                                                BB_K_DEFAULT)
                       ELSE x : x \in {r} })
        Vol(r) == The({ IF x.exc = "None" /\ vol_window # None
                        THEN add_volatility(x.h, x.ref, vol_window) ELSE x : x \in {r} })
        out0 == The({ add_returns(c.h, c.ref) : c \in {DfCopy(h, df)} })
    IN Vol(Bb(Macd(Rsi(Ema(Sma(out0))))))

\* ------------------------------------------------------------ analytics/backtest.py
\* The columns are assigned to `data` in the source's order and read back from
\* it; Series.iloc[-1] raises IndexError on an empty series (line 40), after
\* the columns of lines 21-37 are set.
ema_cross_backtest(h, df, fast, slow) ==
    LET c == DfCopy(h, df)
        data == c.ref
    IN IF ~HasCol(c.h, data, "close") THEN Raise(c.h, data, "KeyError")
       ELSE LET close == c.h[data]["close"]
                ema_fast == ewm_mean(close, fast)
                ema_slow == ewm_mean(close, slow)
                signal == astype_int(SGt(ema_fast, ema_slow))
                position == fillna(shift(signal), Zero)
                ret == fillna(pct_change(close), Zero)
                strategy_return == SMul(position, ret)
                equity == cumprod(SAddK(One, strategy_return))
                h1 == SetCol(c.h, data, "ema_fast", ema_fast)
                h2 == SetCol(h1, data, "ema_slow", ema_slow)
                h3 == SetCol(h2, data, "signal", signal)
                h4 == SetCol(h3, data, "position", position)
                h5 == SetCol(h4, data, "return", ret)
                h6 == SetCol(h5, data, "strategy_return", strategy_return)
                h7 == SetCol(h6, data, "equity", equity)
                peak == cummax(equity)
                drawdown == SAddK(Int2F(-1), SDiv(equity, peak))
            IN IF Len(close) = 0 THEN Raise(h7, data, "IndexError")
               ELSE [h |-> h7, ref |-> data, exc |-> "None",
                     ret |-> [fast |-> fast, slow |-> slow,
                              total_return |-> FSub(equity[Len(equity)], One),
                              max_drawdown |-> series_min(drawdown),
                              trades |-> bool_sum(SGtK(SAbs(diff(position)), Zero))]]

\* ------------------------------------------------------------ app.py
InPath == "in.csv"
OutPath == "out.csv"
\* in_path.with_name(in_path.stem + "_indicators.csv")
IndicatorsPath == "in_indicators.csv"

\* _read_csv: the file's table (open_time is parsed to timestamps, which the
\* model keeps as the bar numbers they order).
read_csv(files, path) == files[path]
\* _write_csv: the whole table goes to `path`.
write_csv(files, df, path) == (path :> df) @@ files

Line(text, val) == [text |-> text, val |-> val]

\* f"{x:.2%}": x as a percentage with two decimals, rounded half to even.
RoundHalfEven(n, d) ==
    LET fl == n \div d
        rem == n - fl * d
    IN IF 2 * rem < d THEN fl
       ELSE IF 2 * rem > d THEN fl + 1
       ELSE IF fl % 2 = 0 THEN fl ELSE fl + 1
Pct2(v) ==
    IF ~IsNum(v) THEN v
    ELSE LET u == IF Fits(v.n, 10000) THEN v ELSE Shrink(v)
         IN Rat(RoundHalfEven(u.n * 10000, u.d), 100)

ema(series, span) == ewm_mean(series, span)

rsi(close, period) ==
    LET delta == diff(close)
        gain == np_where(SGtK(delta, Zero), delta, Zero)
        loss == np_where(SLtK(delta, Zero), SNeg(delta), Zero)
        gain_s == rolling_mean(gain, period)
        loss_s == rolling_mean(loss, period)
    IN RsiFromAverages(gain_s, loss_s)

\* Faulty variant of CliRaise: the output file is written before the failure.
CliRaiseAfterWrite(h, files, e) ==
    [h |-> h, ref |-> 1, exc |-> e, ret |-> NoRet,
     fs |-> write_csv(files, h[1], OutPath), stdout |-> <<>>]
\* The outcome of a command: a call's outcome plus the files and the output.
CliRaise(h, files, e) ==
    [h |-> h, ref |-> 1, exc |-> e, ret |-> NoRet, fs |-> files, stdout |-> <<>>]

cmd_indicators(files, ema_fast, ema_slow, with_rsi, rsi_period, has_out) ==
    LET h0 == <<read_csv(files, InPath)>>
        df == 1
    IN IF ~HasCol(h0, df, "close") THEN CliRaise(h0, files, "ValueError")
       ELSE LET h1 == SetCol(h0, df, ColName("ema_", ema_fast),
                             ema(h0[df]["close"], ema_fast))
                h2 == SetCol(h1, df, ColName("ema_", ema_slow),
                             ema(h1[df]["close"], ema_slow))
                h3 == IF with_rsi
                      THEN SetCol(h2, df, ColName("rsi_", rsi_period),
                                  rsi(h2[df]["close"], rsi_period))
                      ELSE h2
                out_path == IF has_out THEN OutPath ELSE IndicatorsPath
            IN [h |-> h3, ref |-> df, exc |-> "None", ret |-> NoRet,
                fs |-> write_csv(files, h3[df], out_path),
                stdout |-> <<Line("Saved: " \o out_path, NaN)>>]

\* equity.iloc[-1] raises IndexError on an empty table (line 151).
cmd_backtest(files, fast_span, slow_span, has_out) ==
    LET h0 == <<read_csv(files, InPath)>>
        df == 1
    IN IF ~HasCol(h0, df, "close") THEN CliRaise(h0, files, "ValueError")
       ELSE LET close == h0[df]["close"]
                fast == ema(close, fast_span)
                slow == ema(close, slow_span)
                signal == astype_int(SGt(fast, slow))
                positions == fillna(diff(signal), Zero)
                ret == fillna(pct_change(close), Zero)
                strat_ret == SMul(ret, fillna(shift(signal), Zero))
                equity == cumprod(SAddK(One, strat_ret))
            IN IF Len(equity) = 0 THEN CliRaise(h0, files, "IndexError")
               ELSE LET total_return == FSub(equity[Len(equity)], One)
                        trades == bool_sum(SEqK(SAbs(positions), One))
                        nonzero == SNeK(strat_ret, Zero)
                        win_rate == IF bool_any(nonzero)
                                    THEN bool_mean(SGtK(mask(strat_ret, nonzero), Zero))
                                    ELSE Zero
                        c == DfCopy(h0, df)
                        out_df == c.ref
                        h1 == SetCol(c.h, out_df, ColName("ema_", fast_span), fast)
                        h2 == SetCol(h1, out_df, ColName("ema_", slow_span), slow)
                        h3 == SetCol(h2, out_df, "signal", signal)
                        h4 == SetCol(h3, out_df, "strategy_return", strat_ret)
                        h5 == SetCol(h4, out_df, "equity", equity)
                        summary == << Line("Backtest summary", NaN),
                                      Line("  fast EMA: ", Int2F(fast_span)),
                                      Line("  slow EMA: ", Int2F(slow_span)),
                                      Line("  trades:   ", Int2F(trades)),
                                      Line("  win_rate: ", Pct2(win_rate)),
                                      Line("  return:   ", Pct2(total_return)) >>
                    IN [h |-> h5, ref |-> out_df, exc |-> "None",
                        ret |-> [fast |-> fast_span, slow |-> slow_span,
                                 total_return |-> total_return,
                                 max_drawdown |-> NaN, trades |-> trades],
                        fs |-> IF has_out THEN write_csv(files, h5[out_df], OutPath)
                               ELSE files,
                        stdout |-> IF has_out
                                   THEN <<Line("Saved: " \o OutPath, NaN)>> \o summary
                                   ELSE summary]

\* ------------------------------------------------------------ the state machine
Prices == 1..MaxPrice
Windows == 1..MaxWin
Spans == 1..MaxSpan
OptWindows == {None} \cup Windows

\* A table as the loader hands it over: open_time ascending, close when the
\* file has the column.
InputTable(close, has_close) ==
    LET t == [i \in 1..Len(close) |-> Int2F(i)]
    IN IF has_close
       THEN ("open_time" :> t) @@ ("close" :> [i \in 1..Len(close) |-> Int2F(close[i])])
       ELSE ("open_time" :> t)

NoCall == [op |-> "none", args |-> <<>>, exc |-> "None", ret |-> NoRet]

Init ==
    \E n \in 0..MaxLen :
        \E close \in [1..n -> Prices], has_close \in BOOLEAN :
            /\ orig = InputTable(close, has_close)
            /\ heap = <<orig>>
            /\ fs = (InPath :> orig)
            /\ call = NoCall
            /\ stdout = <<>>

\* A library call returns: the caller holds its table (object 1) and the
\* table the call worked on (object 2).
Returned(op, args, r) ==
    /\ heap' = <<r.h[1], r.h[r.ref]>>
    /\ call' = [op |-> op, args |-> args, exc |-> r.exc, ret |-> r.ret]
    /\ UNCHANGED <<orig, fs, stdout>>

\* A command ends: its tables, the files it left and what it printed.
Exited(op, args, r) ==
    /\ heap' = <<r.h[1], r.h[r.ref]>>
    /\ call' = [op |-> op, args |-> args, exc |-> r.exc, ret |-> r.ret]
    /\ fs' = r.fs
    /\ stdout' = r.stdout
    /\ UNCHANGED orig

B2I(b) == IF b THEN 1 ELSE 0

AddReturns == \E r \in {add_returns(<<heap[1]>>, 1)} : Returned("add_returns", <<>>, r)
AddSma ==
    \E w \in Windows :
        \E r \in {add_sma(<<heap[1]>>, 1, w)} : Returned("add_sma", <<w>>, r)
AddEma ==
    \E sp \in Spans :
        \E r \in {add_ema(<<heap[1]>>, 1, sp)} : Returned("add_ema", <<sp>>, r)
AddVolatility ==
    \E w \in Windows :
        \E r \in {add_volatility(<<heap[1]>>, 1, w)} :
            Returned("add_volatility", <<w>>, r)
AddRsi ==
    \E p \in Windows :
        \E r \in {add_rsi(<<heap[1]>>, 1, p)} : Returned("add_rsi", <<p>>, r)
AddMacd ==
    \E f \in Spans, sl \in Spans, sg \in {MaxSpan} :
        \E r \in {add_macd(<<heap[1]>>, 1, f, sl, sg)} :
            Returned("add_macd", <<f, sl, sg>>, r)
AddBollingerBands ==
    \E w \in Windows :
        \E r \in {add_bollinger_bands(<<heap[1]>>, 1, w, BB_K_DEFAULT)} :
            Returned("add_bollinger_bands", <<w, BB_K_DEFAULT>>, r)
ApplyIndicators ==
    \E sma \in OptWindows, vol \in OptWindows, e \in {None, MaxSpan},
       r \in {None, MaxWin}, macd \in BOOLEAN, bb \in BOOLEAN :
        \E res \in {apply_indicators(<<heap[1]>>, 1, sma, e, r, macd, bb, vol)} :
            Returned("apply_indicators", <<sma, e, r, B2I(macd), B2I(bb), vol>>, res)
\* apply_indicators() with every argument left at its default, or all switched off.
ApplyIndicatorsDefaults ==
    \/ \E r \in {apply_indicators(<<heap[1]>>, 1, SMA_DEFAULT, EMA_DEFAULT, RSI_DEFAULT,
                                  TRUE, TRUE, VOL_DEFAULT)} :
           Returned("apply_indicators",
                    <<SMA_DEFAULT, EMA_DEFAULT, RSI_DEFAULT, 1, 1, VOL_DEFAULT>>, r)
    \/ \E r \in {apply_indicators(<<heap[1]>>, 1, None, None, None, FALSE, FALSE, None)} :
           Returned("apply_indicators", <<None, None, None, 0, 0, None>>, r)
EmaCrossBacktest ==
    \E f \in Spans, sl \in Spans :
        \E r \in {ema_cross_backtest(<<heap[1]>>, 1, f, sl)} :
            Returned("ema_cross_backtest", <<f, sl>>, r)
CmdIndicators ==
    \E f \in Spans, sl \in Spans, with_rsi \in BOOLEAN, p \in Windows,
       has_out \in BOOLEAN :
        \E r \in {cmd_indicators(fs, f, sl, with_rsi, p, has_out)} :
            Exited("cmd_indicators", <<f, sl, B2I(with_rsi), p, B2I(has_out)>>, r)
CmdBacktest ==
    \E f \in Spans, sl \in Spans, has_out \in BOOLEAN :
        \E r \in {cmd_backtest(fs, f, sl, has_out)} :
            Exited("cmd_backtest", <<f, sl, B2I(has_out)>>, r)

\* One operation on a fresh input: a library call, or one command of the CLI
\* (main() dispatches to exactly one).
Fresh == call.op = "none"
Next ==
    \/ Fresh /\ AddReturns
    \/ Fresh /\ AddSma
    \/ Fresh /\ AddEma
    \/ Fresh /\ AddVolatility
    \/ Fresh /\ AddRsi
    \/ Fresh /\ AddMacd
    \/ Fresh /\ AddBollingerBands
    \/ Fresh /\ ApplyIndicators
    \/ Fresh /\ EmaCrossBacktest
    \/ Fresh /\ CmdIndicators
    \/ Fresh /\ CmdBacktest
Spec == Init /\ [][Next]_vars

\* A caller making any sequence of library calls on the table it holds.
NextCalls ==
    \/ AddReturns
    \/ AddSma
    \/ AddEma
    \/ AddVolatility
    \/ AddRsi
    \/ AddMacd
    \/ AddBollingerBands
    \/ ApplyIndicatorsDefaults
    \/ EmaCrossBacktest
SpecCalls == Init /\ [][NextCalls]_vars

\* ------------------------------------------------------------ properties
HasClose == "close" \in DOMAIN orig
Close == orig["close"]
Bars == Len(orig["open_time"])
Out == heap[2]
Succeeded == call.exc = "None"
IsBacktest == call.op \in {"ema_cross_backtest", "cmd_backtest"}
\* The market return of bar t >= 2, from the input closes.
MarketReturn(t) == FSub(FDiv(Close[t], Close[t - 1]), One)
\* position[t] = signal[t-1], position[first bar] = 0.
PositionOf(signal, t) == IF t = 1 THEN Zero ELSE signal[t - 1]
PositionChanges(signal) ==
    Cardinality({t \in 2..Len(signal) : PositionOf(signal, t) # PositionOf(signal, t - 1)})
Printed(text, val) == \E i \in 1..Len(stdout) : stdout[i] = Line(text, val)
Flat == HasClose /\ Bars >= 1 /\ \A t \in 1..Bars : Close[t] = Close[1]

\* C1. No look-ahead: after either backtest, the strategy return of the first
\* bar is 0 and that of every later bar t is signal[t-1] * market_return[t];
\* in ema_cross_backtest the position column is the signal delayed by one bar,
\* 0 on the first bar.
C1_NoLookAhead ==
    (IsBacktest /\ Succeeded) =>
        /\ \A t \in 1..Bars :
               Out["strategy_return"][t] =
                   IF t = 1 THEN Zero ELSE FMul(Out["signal"][t - 1], MarketReturn(t))
        /\ call.op = "ema_cross_backtest" =>
               \A t \in 1..Bars : Out["position"][t] = PositionOf(Out["signal"], t)
\* A backtest where the signal changes on a bar whose market return is not 0:
\* the same-bar signal would give another strategy return.
C1_Witness ==
    /\ call.op = "ema_cross_backtest" /\ Succeeded
    /\ \E t \in 2..Bars :
           /\ Out["signal"][t] # Out["signal"][t - 1]
           /\ MarketReturn(t) # Zero

\* C2. A series of length 0 or 1: the backtest does not raise and reports
\* total_return = 0, max_drawdown = 0 and 0 trades (cmd_backtest: the return
\* and the trades it prints).
C2_ShortSeries ==
    (IsBacktest /\ HasClose /\ Bars <= 1) =>
        /\ Succeeded
        /\ call.ret.total_return = Zero
        /\ call.ret.trades = 0
        /\ call.op = "ema_cross_backtest" => call.ret.max_drawdown = Zero
        /\ call.op = "cmd_backtest" =>
               Printed("  return:   ", Zero) /\ Printed("  trades:   ", Zero)

\* C3. The reported trade count is the number of bars t >= 1 with
\* position[t] # position[t-1], where position is the signal delayed by one
\* bar: the count ema_cross_backtest returns and the count cmd_backtest prints.
C3_TradeCount ==
    (IsBacktest /\ Succeeded) =>
        /\ call.ret.trades = PositionChanges(Out["signal"])
        /\ call.op = "cmd_backtest" =>
               Printed("  trades:   ", Int2F(PositionChanges(Out["signal"])))

\* C4. For a non-empty series of positive closes, the max_drawdown that
\* ema_cross_backtest returns is <= 0, and it is 0 when the equity curve never
\* decreases.
EquityNonDecreasing ==
    \A t \in 2..Bars : FLe(Out["equity"][t - 1], Out["equity"][t])
C4_Drawdown ==
    (call.op = "ema_cross_backtest" /\ Succeeded) =>
        /\ FLe(call.ret.max_drawdown, Zero)
        /\ EquityNonDecreasing => call.ret.max_drawdown = Zero
\* An equity curve that never decreases and does rise.
C4_Witness ==
    /\ call.op = "ema_cross_backtest" /\ Succeeded
    /\ EquityNonDecreasing
    /\ \E t \in 2..Bars : FLt(Out["equity"][t - 1], Out["equity"][t])
    /\ call.ret.max_drawdown = Zero

\* C5. Flat input: when every close equals one constant C, both EMAs are C on
\* every bar, the signal is 0 on every bar, and ema_cross_backtest reports
\* total_return = 0, max_drawdown = 0 and 0 trades.
C5_FlatInput ==
    (call.op = "ema_cross_backtest" /\ Flat) =>
        /\ Succeeded
        /\ \A t \in 1..Bars :
               /\ Out["ema_fast"][t] = Close[1]
               /\ Out["ema_slow"][t] = Close[1]
               /\ Out["signal"][t] = Zero
        /\ call.ret.total_return = Zero
        /\ call.ret.max_drawdown = Zero
        /\ call.ret.trades = 0
\* A flat series of full length, backtested with two different spans.
C5_Witness ==
    /\ call.op = "ema_cross_backtest" /\ Flat /\ Bars = MaxLen
    /\ call.args[1] # call.args[2]
    /\ call.ret.trades = 0

\* C6. RSI with zero loss: on every bar whose window of `period` price
\* differences holds no loss, the RSI is the undefined sentinel; no RSI entry is
\* infinite and the computation does not raise.  For add_rsi and for the CLI's
\* rsi (cmd_indicators --with-rsi).
RsiCall ==
    \/ call.op = "add_rsi"
    \/ call.op = "cmd_indicators" /\ call.args[3] = 1
RsiPeriod == IF call.op = "add_rsi" THEN call.args[1] ELSE call.args[4]
RsiColumn == Out[ColName("rsi_", RsiPeriod)]
\* The window of bar t is full and none of its defined differences is a loss.
ZeroLossWindow(t, p) ==
    /\ t >= p
    /\ \A j \in (t - p + 1)..t : j >= 2 => ~FLt(Close[j], Close[j - 1])
C6_RsiZeroLoss ==
    (RsiCall /\ HasClose) =>
        /\ Succeeded
        /\ \A t \in 1..Bars :
               /\ ZeroLossWindow(t, RsiPeriod) => IsNaN(RsiColumn[t])
               /\ ~IsInf(RsiColumn[t])
\* add_rsi on a series whose last window is strictly increasing.
C6_Witness ==
    /\ call.op = "add_rsi" /\ HasClose /\ Bars > RsiPeriod
    /\ \A j \in (Bars - RsiPeriod + 1)..Bars : FLt(Close[j - 1], Close[j])
    /\ IsNaN(RsiColumn[Bars])

\* C7. Alignment: after apply_indicators, every column has as many entries as
\* the input has rows, the input's columns are in the input's order, return is
\* undefined on the first bar, sma_w is undefined on exactly the first w-1
\* bars, and vol_w is undefined on the first w bars.
SmaArg == call.args[1]
VolArg == call.args[6]
C7_Alignment ==
    (call.op = "apply_indicators" /\ Succeeded) =>
        /\ \A c \in DOMAIN Out : Len(Out[c]) = Bars
        /\ \A c \in DOMAIN orig : Out[c] = orig[c]
        /\ Bars >= 1 => IsNaN(Out["return"][1])
        /\ SmaArg # None =>
               \A t \in 1..Bars : IsNaN(Out[ColName("sma_", SmaArg)][t]) <=> t <= SmaArg - 1
        /\ VolArg # None =>
               \A t \in 1..Bars : t <= VolArg => IsNaN(Out[ColName("vol_", VolArg)][t])
\* A table long enough for sma_2 and vol_2 to have defined entries after their
\* undefined ones.
C7_Witness ==
    /\ call.op = "apply_indicators" /\ Succeeded
    /\ SmaArg = 2 /\ VolArg = 2 /\ Bars >= 3
    /\ IsNaN(Out["sma_2"][1]) /\ ~IsNaN(Out["sma_2"][2])
    /\ IsNaN(Out["vol_2"][2]) /\ ~IsNaN(Out["vol_2"][3])

\* C8. The input is never mutated: after any sequence of library calls, the
\* caller's table holds the columns and the values it held at first.
C8_InputNotMutated == heap[1] = orig
\* A call has returned a table with columns the input does not have.
C8_Witness ==
    /\ call.op = "apply_indicators" /\ Succeeded
    /\ "macd_hist" \in DOMAIN Out
    /\ "macd_hist" \notin DOMAIN heap[1]

\* C9. No partial result: when a command fails, no output file has been
\* written and nothing has been printed; an output file exists only after a
\* command that succeeded.
IsCommand == call.op \in {"cmd_indicators", "cmd_backtest"}
C9_NoPartialResult ==
    IsCommand =>
        /\ ~Succeeded => (DOMAIN fs = {InPath} /\ stdout = <<>>)
        /\ DOMAIN fs # {InPath} => Succeeded
        /\ fs[InPath] = orig
\* cmd_backtest --out on an empty table: it fails while computing its summary.
C9_Witness ==
    /\ call.op = "cmd_backtest" /\ call.exc = "IndexError"
    /\ call.args[3] = 1
    /\ DOMAIN fs = {InPath}

\* C10. The two RSI implementations agree: the column the CLI's rsi computes
\* is, bar for bar, the rsi_<period> column of add_rsi on the same closes.
C10_RsiAgree ==
    (call.op = "cmd_indicators" /\ call.args[3] = 1 /\ Succeeded) =>
        RsiColumn = add_rsi(<<orig>>, 1, RsiPeriod).h[2][ColName("rsi_", RsiPeriod)]
====
